---- MODULE Spec2Model ----
(***************************************************************************)
(* Model of the Templar mail service (src/src/email.rs, src/src/routes.rs, *)
(* src/src/main.rs): the global Handlebars registry and its one-time       *)
(* initialisation, the POST /send handler with its render-and-send         *)
(* pipeline, recipient parsing and the HTML-to-plaintext stripper.         *)
(*                                                                         *)
(* Strings are sequences of one-character strings, so that split, trim,    *)
(* replace and the tag scan are computed character by character.           *)
(***************************************************************************)
EXTENDS Integers, Sequences, FiniteSets, TLC

VARIABLES
    baseFile,   \* file system: status of <dir>/base.hbs for every directory
    registry,   \* static REGISTRY: OnceCell<Handlebars> (email.rs:12)
    ipc,        \* init_registry callers: position of each caller
    idir,       \* init_registry callers: directory argument of the running call (0: none)
    ireg,       \* init_registry callers: the local `reg` being built
    iret,       \* init_registry callers: result of the last finished call
    istart,     \* init_registry callers: REGISTRY as it was when the call began
    iseen,      \* registry values read through REGISTRY.get() by each caller
    icalls,     \* init_registry callers: number of calls begun
    env,        \* process environment: API_KEY, API_KEY_CURRENT_REQUEST, MAIL_TRANSPORT
    mainPc,     \* main(): "boot", "serving" or "failed"
    state,      \* Arc<EmailState> shared by the handlers (NoState before boot)
    rpc,        \* POST /send requests: position of each request's handler
    req,        \* POST /send requests: caller's key and SendRequest payload
    outcome,    \* result of render_and_send for each request
    resp,       \* HTTP response of each request
    log,        \* per-request trace of the pipeline steps that ran
    rreg,       \* the cell each request's render_template got from REGISTRY.get()
    outbox,     \* messages the transport accepted
    sv,         \* strip_html::strip: input, scan output, first and second result
    pv          \* parse_recipients: input and result

initVars == <<baseFile, registry, ipc, idir, ireg, iret, istart, iseen, icalls>>
svcVars == <<env, mainPc, state, rpc, req, outcome, resp, log, rreg, outbox>>
vars == <<baseFile, registry, ipc, idir, ireg, iret, istart, iseen, icalls,
          env, mainPc, state, rpc, req, outcome, resp, log, rreg, outbox, sv, pv>>

(***************************************************************************)
(* Bounds of the model.                                                    *)
(***************************************************************************)
MaxPieces == 3
MaxToPieces == 5
MaxCallers == 2
MaxRepeats == 1
MaxReqs == 2

(***************************************************************************)
(* Character strings.                                                      *)
(***************************************************************************)
RECURSIVE Concat(_)
Concat(ss) == IF ss = <<>> THEN <<>> ELSE Head(ss) \o Concat(Tail(ss))

\* All sequences of at most n elements of S.
SeqsUpTo(S, n) == UNION {[1..k -> S] : k \in 0..n}

\* pat occurs in s at position i.
MatchesAt(s, i, pat) ==
    /\ i + Len(pat) - 1 <= Len(s)
    /\ SubSeq(s, i, i + Len(pat) - 1) = pat

Contains(s, pat) == \E i \in 1..Len(s) : MatchesAt(s, i, pat)

\* Rust str::replace: every non-overlapping match, left to right, in one pass
\* over the receiver; the replacement text is not scanned again.
RECURSIVE ReplaceFrom(_, _, _, _)
ReplaceFrom(s, i, from, to) ==
    IF i > Len(s) THEN <<>>
    ELSE IF MatchesAt(s, i, from)
         THEN to \o ReplaceFrom(s, i + Len(from), from, to)
         ELSE <<s[i]>> \o ReplaceFrom(s, i + 1, from, to)

Replace(s, from, to) == ReplaceFrom(s, 1, from, to)

(***************************************************************************)
(* strip_html::strip (email.rs:217-234).                                   *)
(***************************************************************************)
EntNbsp == <<"&", "n", "b", "s", "p", ";">>
EntAmp == <<"&", "a", "m", "p", ";">>
EntLt == <<"&", "l", "t", ";">>
EntGt == <<"&", "g", "t", ";">>

\* "&nbsp;" replaced by nothing instead of a space.
NbspDropped == <<>>

\* The replacement texts of the four replace calls.
NbspText == <<" ">>
AmpText == <<"&">>
LtText == <<"<">>
GtText == <<">">>

\* The for loop over html.chars(): in_tag is set by '<' and cleared by '>';
\* neither is ever pushed, and any other character is pushed when not in a tag.
RECURSIVE ScanFrom(_, _, _, _)
ScanFrom(html, i, in_tag, out) ==
    IF i > Len(html) THEN out
    ELSE LET c == html[i] IN
         IF c = "<" THEN ScanFrom(html, i + 1, TRUE, out)
         ELSE IF c = ">" THEN ScanFrom(html, i + 1, FALSE, out)
         ELSE IF ~in_tag THEN ScanFrom(html, i + 1, in_tag, Append(out, c))
         ELSE ScanFrom(html, i + 1, in_tag, out)

StripTags(html) == ScanFrom(html, 1, FALSE, <<>>)

\* The chain of four replace calls on the scan's output.
Unescape(out) ==
    Replace(Replace(Replace(Replace(out, EntNbsp, NbspText),
                            EntAmp, AmpText),
                    EntLt, LtText),
            EntGt, GtText)

strip(html) == Unescape(StripTags(html))

\* Fragments the inputs of strip are assembled from.
HtmlPieces ==
    { EntNbsp, EntAmp, EntLt, EntGt,
      <<"a", "m", "p", ";">>, <<"l", "t", ";">>, <<"g", "t", ";">>,
      <<"&", "n", "b">>, <<"s", "p", ";">>,
      <<"a">>, <<" ">>, <<"<">>, <<">">> }

HtmlInputs == {Concat(ps) : ps \in SeqsUpTo(HtmlPieces, MaxPieces)}

NoStrip == [phase |-> "off", html |-> <<>>, scanned |-> <<>>, once |-> <<>>, twice |-> <<>>]

\* strip(&html): the scan, then the replacements.
StripCall ==
    /\ sv.phase = "input"
    /\ sv' = [sv EXCEPT !.phase = "once",
                        !.scanned = StripTags(sv.html),
                        !.once = strip(sv.html)]
    /\ UNCHANGED <<initVars, svcVars, pv>>

\* strip applied to its own result.
StripAgain ==
    /\ sv.phase = "once"
    /\ sv' = [sv EXCEPT !.phase = "twice", !.twice = strip(sv.once)]
    /\ UNCHANGED <<initVars, svcVars, pv>>

(***************************************************************************)
(* parse_recipients (email.rs:180-182).                                    *)
(***************************************************************************)
IsWhitespace(c) == c = " "

\* str::trim: leading and trailing whitespace removed.
RECURSIVE TrimStart(_)
TrimStart(s) ==
    IF s # <<>> /\ IsWhitespace(Head(s)) THEN TrimStart(Tail(s)) ELSE s

RECURSIVE TrimEnd(_)
TrimEnd(s) ==
    IF s # <<>> /\ IsWhitespace(s[Len(s)])
    THEN TrimEnd(SubSeq(s, 1, Len(s) - 1)) ELSE s

\* The segment parsed as it stands.
NoTrim(s) == s

Trim(s) == TrimEnd(TrimStart(s))

\* str::split(','): the segments between commas; n commas give n + 1 segments,
\* empty ones included.
RECURSIVE SplitFrom(_, _, _)
SplitFrom(s, i, cur) ==
    IF i > Len(s) THEN <<cur>>
    ELSE IF s[i] = "," THEN <<cur>> \o SplitFrom(s, i + 1, <<>>)
    ELSE SplitFrom(s, i + 1, Append(cur, s[i]))

Split(s) == SplitFrom(s, 1, <<>>)

\* <Mailbox as FromStr>::from_str on an address of the form local@domain: one
\* '@' with a non-empty local part and a non-empty domain, no whitespace and
\* no comma. (The "Name <addr>" form is not part of the inputs.)
AddrChars == {"a", "b", "n", "x"}
IsMailbox(s) ==
    /\ Len(s) >= 3
    /\ Cardinality({i \in 1..Len(s) : s[i] = "@"}) = 1
    /\ s[1] # "@" /\ s[Len(s)] # "@"
    /\ \A i \in 1..Len(s) : s[i] \in AddrChars \cup {"@"}

\* Index of the first segment that does not parse, 0 when all do.
FirstInvalid(segs) ==
    IF \A i \in 1..Len(segs) : IsMailbox(segs[i]) THEN 0
    ELSE CHOOSE i \in 1..Len(segs) :
            /\ ~IsMailbox(segs[i])
            /\ \A j \in 1..(i - 1) : IsMailbox(segs[j])

\* to.split(',').map(|s| s.trim().parse()).collect(): the first Err ends the
\* collection and is the result; otherwise the mailboxes in order.
parse_recipients(to) ==
    LET segs == Split(to)
        trimmed == [i \in 1..Len(segs) |-> Trim(segs[i])]
        bad == FirstInvalid(trimmed)
    IN IF bad = 0
       THEN [ok |-> TRUE, list |-> trimmed, err |-> <<>>]
       ELSE [ok |-> FALSE, list |-> <<>>, err |-> trimmed[bad]]

\* Fragments the `to` strings are assembled from.
AddrA == <<"a", "@", "x">>
AddrB == <<"b", "@", "x">>
NotAnAddress == <<"n", "a">>
ToPieces == {AddrA, AddrB, NotAnAddress, <<",">>, <<" ">>}

ToInputs == {Concat(ps) : ps \in SeqsUpTo(ToPieces, MaxToPieces)}

NoParse == [phase |-> "off", to |-> <<>>, result |-> [ok |-> FALSE, list |-> <<>>, err |-> <<>>]]

ParseCall ==
    /\ pv.phase = "input"
    /\ pv' = [pv EXCEPT !.phase = "done", !.result = parse_recipients(pv.to)]
    /\ UNCHANGED <<initVars, svcVars, sv>>

(***************************************************************************)
(* The global registry and init_registry (email.rs:12, 119-133).           *)
(***************************************************************************)
Dirs == 1..MaxCallers
Callers == 1..MaxCallers
BaseStatuses == {"absent", "unreadable", "invalid", "ok"}

\* Handlebars::new() followed by set_strict_mode(true).
NewStrictRegistry == [strict |-> TRUE, partials |-> {}]
NoRegistry == [strict |-> FALSE, partials |-> {}]

\* OnceCell::new(): the empty cell.
EmptyCell == [set |-> FALSE, val |-> NoRegistry]

\* The source text of <dir>/base.hbs; different directories hold different texts.
BaseSource(fs, dir) == <<"base.hbs", dir>>

\* Lines 122-129 of init_registry: the local registry, or the error that `?`
\* returns when base.hbs exists and cannot be read or is not a valid partial.
BuildRegistry(fs, dir) ==
    CASE fs[dir] = "absent" ->
            [ok |-> TRUE, reg |-> NewStrictRegistry]
      [] fs[dir] = "unreadable" ->
            [ok |-> FALSE, reg |-> NoRegistry]
      [] fs[dir] = "invalid" ->
            [ok |-> FALSE, reg |-> NoRegistry]
      [] fs[dir] = "ok" ->
            [ok |-> TRUE,
             reg |-> [NewStrictRegistry EXCEPT
                        !.partials = {[name |-> "base", src |-> BaseSource(fs, dir)]}]]

\* A plain store, whatever the cell holds.
CellOverwrite(cell, v) == [set |-> TRUE, val |-> v]

\* OnceCell::set: stores the value only when the cell is empty.
OnceCellSet(cell, v) == IF cell.set THEN cell ELSE [set |-> TRUE, val |-> v]

\* Calls of init_registry made by callers that had called it before.
RECURSIVE RepeatsUpTo(_, _)
RepeatsUpTo(calls, c) ==
    IF c = 0 THEN 0
    ELSE RepeatsUpTo(calls, c - 1) + (IF calls[c] > 1 THEN calls[c] - 1 ELSE 0)

\* A caller enters init_registry(dir) and runs it up to REGISTRY.set: a first
\* call uses the caller's own directory, a repeated call any directory.
InitBuild(c) ==
    /\ ipc[c] = "idle"
    /\ icalls[c] = 0 \/ RepeatsUpTo(icalls, MaxCallers) < MaxRepeats
    /\ \E d \in (IF icalls[c] = 0 THEN {c} ELSE Dirs) :
         LET b == BuildRegistry(baseFile, d) IN
         /\ istart' = [istart EXCEPT ![c] = registry]
         /\ icalls' = [icalls EXCEPT ![c] = @ + 1]
         /\ IF b.ok
            THEN /\ ipc' = [ipc EXCEPT ![c] = "built"]
                 /\ idir' = [idir EXCEPT ![c] = d]
                 /\ ireg' = [ireg EXCEPT ![c] = b.reg]
                 /\ iret' = [iret EXCEPT ![c] = "running"]
            ELSE /\ ipc' = [ipc EXCEPT ![c] = "idle"]
                 /\ idir' = [idir EXCEPT ![c] = 0]
                 /\ ireg' = ireg
                 /\ iret' = [iret EXCEPT ![c] = "err"]
    /\ UNCHANGED <<baseFile, registry, iseen, svcVars, sv, pv>>

\* let _ = REGISTRY.set(reg); Ok(()): the locals are gone when the call returns.
InitSet(c) ==
    /\ ipc[c] = "built"
    /\ registry' = OnceCellSet(registry, ireg[c])
    /\ ipc' = [ipc EXCEPT ![c] = "idle"]
    /\ iret' = [iret EXCEPT ![c] = "ok"]
    /\ idir' = [idir EXCEPT ![c] = 0]
    /\ ireg' = [ireg EXCEPT ![c] = NoRegistry]
    /\ UNCHANGED <<baseFile, istart, iseen, icalls, svcVars, sv, pv>>

\* REGISTRY.get() as render_template does it, by a caller whose
\* init_registry has returned Ok.
RegistryGet(c) ==
    /\ ipc[c] = "idle"
    /\ iret[c] = "ok"
    /\ registry \notin iseen[c]
    /\ iseen' = [iseen EXCEPT ![c] = @ \cup {registry}]
    /\ UNCHANGED <<baseFile, registry, ipc, idir, ireg, iret, istart, icalls,
                   svcVars, sv, pv>>

(***************************************************************************)
(* The process environment and the API key check (routes.rs:23-36).        *)
(***************************************************************************)
Unset == [set |-> FALSE, val |-> ""]
UnsetText == [set |-> FALSE, val |-> <<>>]
Var(v) == [set |-> TRUE, val |-> v]

\* std::env::var(..).unwrap_or_default()
UnwrapOrDefault(v) == IF v.set THEN v.val ELSE ""

\* is_authorized(): reads API_KEY and API_KEY_CURRENT_REQUEST from the process
\* environment; the request is not an argument.
is_authorized(e) ==
    IF e.API_KEY.set /\ e.API_KEY.val # ""
    THEN e.API_KEY.val = UnwrapOrDefault(e.API_KEY_CURRENT_REQUEST)
    ELSE IF e.API_KEY.set THEN FALSE
    ELSE TRUE

\* Environments the process can be started with.
Envs ==
    [ API_KEY : {Unset, Var(""), Var("k1")},
      API_KEY_CURRENT_REQUEST : {Unset, Var("k1")},
      MAIL_FROM : {UnsetText, Var(<<"n", "a">>), Var(<<"a", "@", "x">>)},
      MAIL_TRANSPORT : {Unset, Var("file")} ]

(***************************************************************************)
(* EmailState::from_env and main (email.rs:63-89, main.rs:43-61).          *)
(***************************************************************************)
NoState == [built |-> FALSE, mailer |-> "none", from |-> <<>>,
            reply_to |-> UnsetText, templates_dir |-> 0]

\* TEMPLATES_DIR: the directory the service is started with.
TemplatesDir(e) == 1

\* from_env with the result of init_registry dropped instead of returned by `?`.
from_env_unchecked(e, fs, cell, mailerOk) ==
    LET b == BuildRegistry(fs, TemplatesDir(e)) IN
    IF ~e.MAIL_FROM.set \/ ~IsMailbox(e.MAIL_FROM.val) \/ ~mailerOk
    THEN [ok |-> FALSE, cell |-> cell, state |-> NoState]
    ELSE [ok |-> TRUE,
          cell |-> IF b.ok THEN OnceCellSet(cell, b.reg) ELSE cell,
          state |-> [built |-> TRUE,
                     mailer |-> IF UnwrapOrDefault(e.MAIL_TRANSPORT) = "file"
                                THEN "file" ELSE "smtp",
                     from |-> e.MAIL_FROM.val,
                     reply_to |-> UnsetText,
                     templates_dir |-> TemplatesDir(e)]]

\* from_env: MAIL_FROM must be set and parse; init_registry must succeed; the
\* transport is "file" when MAIL_TRANSPORT says so and SMTP otherwise; building
\* the transport may fail (mailerOk).
from_env(e, fs, cell, mailerOk) ==
    LET b == BuildRegistry(fs, TemplatesDir(e)) IN
    IF ~e.MAIL_FROM.set \/ ~IsMailbox(e.MAIL_FROM.val)
    THEN [ok |-> FALSE, cell |-> cell, state |-> NoState]
    ELSE IF ~b.ok
    THEN [ok |-> FALSE, cell |-> cell, state |-> NoState]
    ELSE IF ~mailerOk
    THEN [ok |-> FALSE, cell |-> OnceCellSet(cell, b.reg), state |-> NoState]
    ELSE [ok |-> TRUE, cell |-> OnceCellSet(cell, b.reg),
          state |-> [built |-> TRUE,
                     mailer |-> IF UnwrapOrDefault(e.MAIL_TRANSPORT) = "file"
                                THEN "file" ELSE "smtp",
                     from |-> e.MAIL_FROM.val,
                     reply_to |-> UnsetText,
                     templates_dir |-> TemplatesDir(e)]]

\* let state = Arc::new(EmailState::from_env()?);
MainFromEnv ==
    /\ mainPc = "boot"
    /\ \E mailerOk \in BOOLEAN :
         LET r == from_env(env, baseFile, registry, mailerOk) IN
         /\ registry' = r.cell
         /\ state' = r.state
         /\ mainPc' = IF r.ok THEN "state" ELSE "failed"
    /\ UNCHANGED <<baseFile, ipc, idir, ireg, iret, istart, iseen, icalls,
                   env, rpc, req, outcome, resp, log, rreg, outbox, sv, pv>>

\* Router, LISTEN_ADDR/LISTEN_PORT, bind and serve: the server runs, or main
\* returns the error.
MainServe ==
    /\ mainPc = "state"
    /\ \E bound \in BOOLEAN : mainPc' = IF bound THEN "serving" ELSE "failed"
    /\ UNCHANGED <<initVars, env, state, rpc, req, outcome, resp, log, rreg, outbox, sv, pv>>

(***************************************************************************)
(* render_template (email.rs:195-214).                                     *)
(***************************************************************************)
\* The templates directory: welcome.hbs wraps its body in the `base` partial
\* and refers to {{name}}; locked.hbs exists and cannot be read; no other
\* template file exists.
TemplateNames == {"welcome", "locked", "missing"}
TemplateExists(dir, name) == name \in {"welcome", "locked"}
TemplateReadable(dir, name) == name = "welcome"
TemplateRefs(name) == {"name"}
TemplatePartials(name) == {"base"}

\* What welcome.hbs renders to.
WelcomeHtml ==
    <<"<", "p", ">", "a", " ">> \o EntAmp \o <<" ", "b", "<", "/", "p", ">">>

\* Handlebars::render_template in strict mode: a referenced variable that is
\* not in vars, or a partial that is not registered, fails the render.
HbsRender(reg, name, varNames) ==
    IF /\ TemplateRefs(name) \subseteq varNames
       /\ TemplatePartials(name) \subseteq {p.name : p \in reg.partials}
    THEN [ok |-> TRUE, html |-> WelcomeHtml]
    ELSE [ok |-> FALSE, html |-> <<>>]

\* render_template: the steps it ran (as a trace) and its result.
render_template(cell, dir, name, varNames) ==
    IF ~cell.set
    THEN [kind |-> "panic", html |-> <<>>, trace |-> <<"registry_get">>]
    ELSE IF ~TemplateExists(dir, name)
    THEN [kind |-> "TemplateNotFound", html |-> <<>>,
          trace |-> <<"registry_get", "exists">>]
    ELSE IF ~TemplateReadable(dir, name)
    THEN [kind |-> "RenderError", html |-> <<>>,
          trace |-> <<"registry_get", "exists", "read_err">>]
    ELSE LET h == HbsRender(cell.val, name, varNames) IN
         IF h.ok
         THEN [kind |-> "Ok", html |-> h.html,
               trace |-> <<"registry_get", "exists", "read", "render">>]
         ELSE [kind |-> "RenderError", html |-> <<>>,
               trace |-> <<"registry_get", "exists", "read", "render_err">>]

(***************************************************************************)
(* render_and_send (email.rs:137-177) and nanoid (email.rs:185-192).       *)
(***************************************************************************)
NoMessage == [built |-> FALSE, from |-> <<>>, to |-> <<>>, subject |-> "",
              text |-> <<>>, html |-> <<>>]

\* Message::builder()...multipart(..): fails without a sender or a recipient.
BuildMessage(from, to_list, subject, html) ==
    IF from = <<>> \/ to_list = <<>>
    THEN NoMessage
    ELSE [built |-> TRUE, from |-> from, to |-> to_list, subject |-> subject,
          text |-> strip(html), html |-> html]

Pending(kind, trace, msg) == [kind |-> kind, trace |-> trace, msg |-> msg]

\* Steps 1 to 3 with render_template called before parse_recipients.
RenderFirst(st, cell, p) ==
    LET h == render_template(cell, st.templates_dir, p.template, p.vars)
        r == parse_recipients(p.to)
    IN IF h.kind # "Ok"
       THEN Pending(h.kind, h.trace, NoMessage)
       ELSE IF ~r.ok
       THEN Pending("Config", h.trace \o <<"parse_err">>, NoMessage)
       ELSE Pending("send", h.trace \o <<"parse">> \o <<"build">>,
                    BuildMessage(st.from, r.list, p.subject, h.html))

\* Steps 1 to 3 of render_and_send, up to the await of the transport: the
\* error returned, or "send" with the message built.
BeforeSend(st, cell, p) ==
    LET r == parse_recipients(p.to) IN
    IF ~r.ok
    THEN Pending("Config", <<"parse_err">>, NoMessage)
    ELSE LET h == render_template(cell, st.templates_dir, p.template, p.vars) IN
         IF h.kind # "Ok"
         THEN Pending(h.kind, <<"parse">> \o h.trace, NoMessage)
         ELSE LET m == BuildMessage(st.from, r.list, p.subject, h.html) IN
              IF ~m.built
              THEN Pending("Config", <<"parse">> \o h.trace \o <<"build_err">>, NoMessage)
              ELSE Pending("send", <<"parse">> \o h.trace \o <<"build">>, m)

\* rand's Alphanumeric distribution.
Alphanumeric ==
    << "A", "B", "C", "D", "E", "F", "G", "H", "I", "J", "K", "L", "M",
       "N", "O", "P", "Q", "R", "S", "T", "U", "V", "W", "X", "Y", "Z",
       "a", "b", "c", "d", "e", "f", "g", "h", "i", "j", "k", "l", "m",
       "n", "o", "p", "q", "r", "s", "t", "u", "v", "w", "x", "y", "z",
       "0", "1", "2", "3", "4", "5", "6", "7", "8", "9" >>

\* rng().sample_iter(&Alphanumeric): the i-th character drawn from the
\* generator in state seed.
Sample(seed, i) == Alphanumeric[((seed * 7 + i * 11) % Len(Alphanumeric)) + 1]
Seeds == {0, 1}

NanoidLen == 22

\* .take(22).map(char::from).collect()
nanoid(seed) == [i \in 1..NanoidLen |-> Sample(seed, i)]

NoOutcome == [kind |-> "none", id |-> <<>>]

\* The transport's error is dropped and the id returned all the same.
SendIgnored(sent, seed) == [kind |-> "Ok", id |-> nanoid(seed)]

\* state.mailer.send(email).await.map_err(SmtpError)?; Ok(nanoid())
AfterSend(sent, seed) ==
    IF sent THEN [kind |-> "Ok", id |-> nanoid(seed)]
    ELSE [kind |-> "SmtpError", id |-> <<>>]

(***************************************************************************)
(* POST /send (routes.rs:41-69).                                           *)
(***************************************************************************)
Reqs == 1..MaxReqs
Keys == {"k1", "k2"}

\* The `to` strings, templates and vars of the requests.
SendTos == { AddrA \o <<",", " ">> \o AddrB, AddrA \o <<" ", ",">> \o NotAnAddress }
Payloads ==
    { p \in [to : SendTos, subject : {"Hi"}, template : TemplateNames,
             vars : {{}, {"name"}}] :
        p.template = "welcome" \/ p.vars = {} }

NoRequest == [key |-> "", to |-> <<>>, subject |-> "", template |-> "", vars |-> {}]
NoResponse == [status |-> 0, error |-> "", id |-> <<>>]

\* Every error is a server error, whatever its kind.
StatusAlways500(kind) == 500

\* The match on EmailError in send_email.
StatusOf(kind) ==
    CASE kind = "TemplateNotFound" -> 404
      [] kind = "RenderError" -> 422
      [] OTHER -> 500

Respond(o) ==
    IF o.kind = "Ok" THEN [status |-> 200, error |-> "", id |-> o.id]
    ELSE [status |-> StatusOf(o.kind), error |-> o.kind, id |-> <<>>]

\* send_email up to the first await that can suspend: the auth check, then
\* render_and_send up to the transport's send.
SendEmail(r) ==
    /\ mainPc = "serving"
    /\ rpc[r] = "idle"
    /\ \E k \in Keys, p \in Payloads :
         /\ req' = [req EXCEPT ![r] = [key |-> k, to |-> p.to, subject |-> p.subject,
                                       template |-> p.template, vars |-> p.vars]]
         /\ IF ~is_authorized(env)
            THEN /\ resp' = [resp EXCEPT ![r] =
                               [status |-> 401, error |-> "unauthorized", id |-> <<>>]]
                 /\ rpc' = [rpc EXCEPT ![r] = "done"]
                 /\ UNCHANGED <<outcome, log, rreg>>
            ELSE LET b == BeforeSend(state, registry, p) IN
                 /\ log' = [log EXCEPT ![r] = b.trace]
                 /\ rreg' = [rreg EXCEPT ![r] =
                               IF \E i \in 1..Len(b.trace) : b.trace[i] = "registry_get"
                               THEN registry ELSE @]
                 /\ IF b.kind = "send"
                    THEN /\ rpc' = [rpc EXCEPT ![r] = "sending"]
                         /\ UNCHANGED <<outcome, resp>>
                    ELSE IF b.kind = "panic"
                    THEN /\ rpc' = [rpc EXCEPT ![r] = "panicked"]
                         /\ UNCHANGED <<outcome, resp>>
                    ELSE /\ outcome' = [outcome EXCEPT ![r] = [kind |-> b.kind, id |-> <<>>]]
                         /\ resp' = [resp EXCEPT ![r] = Respond([kind |-> b.kind, id |-> <<>>])]
                         /\ rpc' = [rpc EXCEPT ![r] = "done"]
    /\ UNCHANGED <<initVars, env, mainPc, state, outbox, sv, pv>>

\* The transport (SMTP or file) finishes the send: the message is accepted or
\* the send fails; render_and_send returns and send_email answers.
TransportSend(r) ==
    /\ rpc[r] = "sending"
    /\ \E sent \in BOOLEAN, seed \in Seeds :
         LET o == AfterSend(sent, seed)
             p == [to |-> req[r].to, subject |-> req[r].subject,
                   template |-> req[r].template, vars |-> req[r].vars]
         IN
         /\ outbox' = IF sent
                      THEN outbox \cup {[req |-> r, via |-> state.mailer,
                                         msg |-> BeforeSend(state, registry, p).msg]}
                      ELSE outbox
         /\ log' = [log EXCEPT ![r] = @ \o <<IF sent THEN "send" ELSE "send_err">>
                                        \o (IF o.kind = "Ok" THEN <<"nanoid">> ELSE <<>>)]
         /\ outcome' = [outcome EXCEPT ![r] = o]
         /\ resp' = [resp EXCEPT ![r] = Respond(o)]
         /\ rpc' = [rpc EXCEPT ![r] = "done"]
    /\ UNCHANGED <<initVars, env, mainPc, state, req, rreg, sv, pv>>

(***************************************************************************)
(* Specifications.                                                         *)
(***************************************************************************)
CallersIdle ==
    /\ registry = EmptyCell
    /\ ipc = [c \in Callers |-> "idle"]
    /\ idir = [c \in Callers |-> 0]
    /\ ireg = [c \in Callers |-> NoRegistry]
    /\ iret = [c \in Callers |-> "none"]
    /\ istart = [c \in Callers |-> EmptyCell]
    /\ iseen = [c \in Callers |-> {}]
    /\ icalls = [c \in Callers |-> 0]

NoRequests ==
    /\ state = NoState
    /\ rpc = [r \in Reqs |-> "idle"]
    /\ req = [r \in Reqs |-> NoRequest]
    /\ outcome = [r \in Reqs |-> NoOutcome]
    /\ resp = [r \in Reqs |-> NoResponse]
    /\ log = [r \in Reqs |-> <<>>]
    /\ rreg = [r \in Reqs |-> EmptyCell]
    /\ outbox = {}

\* The service: main boots, then serves POST /send requests concurrently.
Init ==
    /\ baseFile \in {f \in [Dirs -> BaseStatuses] :
                        \A d \in Dirs : d # 1 => f[d] = "absent"}
    /\ env \in Envs
    /\ mainPc = "boot"
    /\ CallersIdle
    /\ NoRequests
    /\ sv = NoStrip
    /\ pv = NoParse

Next ==
    \/ MainFromEnv
    \/ MainServe
    \/ \E r \in Reqs : SendEmail(r)
    \/ \E r \in Reqs : TransportSend(r)

Spec == Init /\ [][Next]_vars

\* Callers of init_registry running concurrently, each first with its own
\* directory, and reading the registry afterwards.
InitRegistry ==
    /\ baseFile \in [Dirs -> BaseStatuses]
    /\ env = [API_KEY |-> Unset, API_KEY_CURRENT_REQUEST |-> Unset,
              MAIL_FROM |-> UnsetText, MAIL_TRANSPORT |-> Unset]
    /\ mainPc = "off"
    /\ CallersIdle
    /\ NoRequests
    /\ sv = NoStrip
    /\ pv = NoParse

NextRegistry ==
    \/ \E c \in Callers : InitBuild(c)
    \/ \E c \in Callers : InitSet(c)
    \/ \E c \in Callers : RegistryGet(c)

SpecRegistry == InitRegistry /\ [][NextRegistry]_vars

\* strip applied to every input, and to its own result.
InitStrip ==
    /\ baseFile = [d \in Dirs |-> "absent"]
    /\ env = [API_KEY |-> Unset, API_KEY_CURRENT_REQUEST |-> Unset,
              MAIL_FROM |-> UnsetText, MAIL_TRANSPORT |-> Unset]
    /\ mainPc = "off"
    /\ CallersIdle
    /\ NoRequests
    /\ sv \in {[NoStrip EXCEPT !.phase = "input", !.html = h] : h \in HtmlInputs}
    /\ pv = NoParse

NextStrip == StripCall \/ StripAgain

SpecStrip == InitStrip /\ [][NextStrip]_vars

\* parse_recipients applied to every `to` string.
InitParse ==
    /\ baseFile = [d \in Dirs |-> "absent"]
    /\ env = [API_KEY |-> Unset, API_KEY_CURRENT_REQUEST |-> Unset,
              MAIL_FROM |-> UnsetText, MAIL_TRANSPORT |-> Unset]
    /\ mainPc = "off"
    /\ CallersIdle
    /\ NoRequests
    /\ sv = NoStrip
    /\ pv \in {[NoParse EXCEPT !.phase = "input", !.to = t] : t \in ToInputs}

NextParse == ParseCall

SpecParse == InitParse /\ [][NextParse]_vars

(***************************************************************************)
(* Properties.                                                             *)
(***************************************************************************)
\* C1: when several callers run init_registry concurrently for the first time,
\* each with its own directory, REGISTRY holds the registry built from exactly
\* one directory, a caller that got Ok finds it set, and every value read
\* through REGISTRY.get() by any caller is that one value: no two different
\* registries are ever observed.
C1_SingleRegistry ==
    /\ registry.set =>
          \E d \in Dirs : /\ BuildRegistry(baseFile, d).ok
                          /\ registry.val = BuildRegistry(baseFile, d).reg
    /\ \A c \in Callers : iret[c] = "ok" => registry.set
    /\ \A c \in Callers : iseen[c] \subseteq {registry}

\* Two callers began their first call while REGISTRY was still empty, their
\* directories hold different base partials, both got Ok and both read the
\* same registry.
C1_Witness ==
    \E c1, c2 \in Callers :
        /\ c1 # c2
        /\ icalls[c1] = 1 /\ icalls[c2] = 1
        /\ ~istart[c1].set /\ ~istart[c2].set
        /\ baseFile[c1] = "ok" /\ baseFile[c2] = "ok"
        /\ iret[c1] = "ok" /\ iret[c2] = "ok"
        /\ iseen[c1] = {registry} /\ iseen[c2] = {registry}

\* C2: a call of init_registry that begins when REGISTRY is already set (some
\* call has succeeded) is a no-op whatever its directory: it returns Ok, also
\* when that directory's base.hbs is unreadable or invalid, and REGISTRY is
\* what it was when the call began.
C2_LaterCallNoOp ==
    \A c \in Callers :
        (ipc[c] = "idle" /\ icalls[c] > 0 /\ istart[c].set)
            => (iret[c] = "ok" /\ registry = istart[c])

\* Some comma-separated segment of `to` is not a mailbox once trimmed.
HasInvalidSegment(to) ==
    \E i \in 1..Len(Split(to)) : ~IsMailbox(Trim(Split(to)[i]))

Dispatched(r) == rpc[r] # "idle" /\ resp[r].status # 401

\* C3: a dispatched request whose `to` has an invalid segment returns the
\* Config error, and nothing else ran for it: no registry access, no template
\* file check or read, no render, no message build, no transport send; also
\* when the template is missing or a variable is undefined.
C3_RecipientsFirst ==
    \A r \in Reqs :
        (Dispatched(r) /\ HasInvalidSegment(req[r].to)) =>
            /\ rpc[r] = "done"
            /\ outcome[r].kind = "Config"
            /\ log[r] = <<"parse_err">>
            /\ \A m \in outbox : m.req # r

\* A request with an invalid recipient that names a missing template, and one
\* that leaves the template's variable undefined, both answered.
C3_Witness ==
    \E r1, r2 \in Reqs :
        /\ rpc[r1] = "done" /\ rpc[r2] = "done"
        /\ HasInvalidSegment(req[r1].to) /\ HasInvalidSegment(req[r2].to)
        /\ req[r1].template = "missing"
        /\ req[r2].template = "welcome" /\ req[r2].vars = {}
        /\ outcome[r1].kind = "Config" /\ outcome[r2].kind = "Config"

Occurrences(t, e) == Cardinality({i \in 1..Len(t) : t[i] = e})

\* C4: every render_and_send call has no outcome while it runs and exactly one
\* once it has returned; with an error outcome no message of the request was
\* accepted by the transport; with an id, the id has 22 characters and
\* parsing, rendering, assembly and exactly one accepted send happened, in
\* that order.
C4_AllOrNothing ==
    \A r \in Reqs :
        /\ outcome[r].kind \in {"none", "Ok", "Config", "TemplateNotFound",
                                "RenderError", "SmtpError"}
        /\ (outcome[r].kind # "none") <=> (rpc[r] = "done" /\ resp[r].status # 401)
        /\ outcome[r].kind \notin {"none", "Ok"} =>
              /\ \A m \in outbox : m.req # r
              /\ Occurrences(log[r], "send") = 0
        /\ outcome[r].kind = "Ok" =>
              /\ Len(outcome[r].id) = 22
              /\ log[r] = <<"parse", "registry_get", "exists", "read", "render",
                            "build", "send", "nanoid">>
              /\ Cardinality({m \in outbox : m.req = r}) = 1
              /\ \A m \in outbox : m.req = r => m.msg.built

\* Two calls were in flight together; one returned an id, the other the
\* transport's error.
C4_Witness ==
    \E r1, r2 \in Reqs :
        /\ outcome[r1].kind = "Ok"
        /\ outcome[r2].kind = "SmtpError"
        /\ Cardinality(outbox) = 1

\* The error kind (or Ok) of the first step of the pipeline that fails for
\* request r, from its payload, the registry and the transport's answer.
FirstFailure(r) ==
    IF HasInvalidSegment(req[r].to) THEN "Config"
    ELSE IF req[r].template \notin {"welcome", "locked"} THEN "TemplateNotFound"
    ELSE IF \/ req[r].template = "locked"
            \/ "name" \notin req[r].vars
            \/ registry.val.partials = {}
         THEN "RenderError"
    ELSE IF state.from = <<>> THEN "Config"
    ELSE IF Occurrences(log[r], "send_err") > 0 THEN "SmtpError"
    ELSE "Ok"

StatusFor(kind) ==
    CASE kind = "Ok" -> 200
      [] kind = "TemplateNotFound" -> 404
      [] kind = "RenderError" -> 422
      [] kind \in {"Config", "SmtpError"} -> 500

\* C5: the answer to an authorized request is decided by the first failing
\* step alone: recipients -> Config -> 500, file absent -> TemplateNotFound ->
\* 404, unreadable file or failed render -> RenderError -> 422, build ->
\* Config -> 500, transport (SMTP or file) -> SmtpError -> 500, none -> 200
\* with the id; the kind detected is the kind reported.
C5_StatusByFirstFailure ==
    \A r \in Reqs :
        (rpc[r] = "done" /\ resp[r].status # 401) =>
            /\ outcome[r].kind = FirstFailure(r)
            /\ resp[r].status = StatusFor(FirstFailure(r))
            /\ outcome[r].kind # "Ok" => resp[r].error = outcome[r].kind
            /\ outcome[r].kind = "Ok" => (resp[r].id = outcome[r].id /\ resp[r].id # <<>>)

\* The file transport failed for one request (500) while another request's
\* render failed (422).
C5_Witness ==
    \E r1, r2 \in Reqs :
        /\ state.mailer = "file"
        /\ outcome[r1].kind = "SmtpError" /\ resp[r1].status = 500
        /\ outcome[r2].kind = "RenderError" /\ resp[r2].status = 422

\* C6: a request is answered 401 exactly when an API key is configured and the
\* key its own caller supplied differs from it; the decision depends on the
\* configured key and the request's key only.
C6_AuthByRequestKey ==
    \A r \in Reqs :
        rpc[r] # "idle" =>
            ((resp[r].status = 401) <=>
                (env.API_KEY.set /\ req[r].key # env.API_KEY.val))

\* One pass over s in which each of the four entities found is replaced and
\* the replacement is never looked at again.
RECURSIVE SinglePassFrom(_, _)
SinglePassFrom(s, i) ==
    IF i > Len(s) THEN <<>>
    ELSE IF MatchesAt(s, i, EntNbsp) THEN <<" ">> \o SinglePassFrom(s, i + 6)
    ELSE IF MatchesAt(s, i, EntAmp) THEN <<"&">> \o SinglePassFrom(s, i + 5)
    ELSE IF MatchesAt(s, i, EntLt) THEN <<"<">> \o SinglePassFrom(s, i + 4)
    ELSE IF MatchesAt(s, i, EntGt) THEN <<">">> \o SinglePassFrom(s, i + 4)
    ELSE <<s[i]>> \o SinglePassFrom(s, i + 1)

\* C7: strip substitutes entities in a single pass: text produced by one
\* replacement is never replaced again, so "&amp;lt;" gives "&lt;" and
\* "&amp;gt;" gives "&gt;".
C7_SinglePass ==
    sv.phase \in {"once", "twice"} =>
        /\ sv.once = SinglePassFrom(sv.scanned, 1)
        /\ sv.html = EntAmp \o <<"l", "t", ";">> => sv.once = EntLt
        /\ sv.html = EntAmp \o <<"g", "t", ";">> => sv.once = EntGt

NoAngle(s) == \A i \in 1..Len(s) : s[i] \notin {"<", ">"}

\* C8: for every s without '<' and '>', strip(strip(s)) = strip(s).
C8_Idempotent ==
    (sv.phase = "twice" /\ NoAngle(sv.html)) => sv.twice = sv.once

NoEscapedText(s) ==
    /\ ~Contains(s, EntAmp)
    /\ ~Contains(s, EntLt)
    /\ ~Contains(s, EntGt)

\* C8, amended: for every s without '<' and '>' that contains none of "&amp;",
\* "&lt;" and "&gt;" ("&nbsp;" is allowed), strip(strip(s)) = strip(s).
C8_IdempotentUnescaped ==
    (sv.phase = "twice" /\ NoAngle(sv.html) /\ NoEscapedText(sv.html))
        => sv.twice = sv.once

\* strip ran twice on such an input in which it replaced an "&nbsp;".
C8_Witness ==
    /\ sv.phase = "twice"
    /\ NoAngle(sv.html) /\ NoEscapedText(sv.html)
    /\ Contains(sv.html, EntNbsp)
    /\ sv.once # sv.html
    /\ Len(sv.once) > 1

\* s without the whitespace at its two ends.
Ends(s) == {i \in 1..Len(s) : s[i] # " "}
Trimmed(s) ==
    IF Ends(s) = {} THEN <<>>
    ELSE SubSeq(s, CHOOSE i \in Ends(s) : \A j \in Ends(s) : i <= j,
                   CHOOSE i \in Ends(s) : \A j \in Ends(s) : i >= j)

\* s without any whitespace.
Squeezed(s) == SelectSeq(s, LAMBDA c : c # " ")

\* C9: if every comma-separated segment of `to` is a mailbox once trimmed,
\* parse_recipients returns exactly those mailboxes, one per segment, in input
\* order, the same list as for `to` with all whitespace removed; if any segment
\* is not (an empty one included) it fails and returns no mailbox.
C9_AllOrNothing ==
    pv.phase = "done" =>
        LET segs == Split(pv.to) IN
        IF \A i \in 1..Len(segs) : IsMailbox(Trimmed(segs[i]))
        THEN /\ pv.result.ok
             /\ Len(pv.result.list) = Len(segs)
             /\ \A i \in 1..Len(segs) : pv.result.list[i] = Trimmed(segs[i])
             /\ pv.result.list = Split(Squeezed(pv.to))
        ELSE /\ ~pv.result.ok
             /\ pv.result.list = <<>>

\* Two mailboxes parsed, in order, from a string with whitespace on both sides
\* of the comma.
C9_Witness ==
    /\ pv.phase = "done"
    /\ pv.to = AddrB \o <<" ", ",", " ">> \o AddrA
    /\ pv.result.ok
    /\ pv.result.list = <<AddrB, AddrA>>

\* The scan as C10 describes it: a '>' outside a tag is copied.
RECURSIVE TagScanFrom(_, _, _)
TagScanFrom(html, i, in_tag) ==
    IF i > Len(html) THEN <<>>
    ELSE IF in_tag
         THEN TagScanFrom(html, i + 1, html[i] # ">")
         ELSE IF html[i] = "<" THEN TagScanFrom(html, i + 1, TRUE)
         ELSE <<html[i]>> \o TagScanFrom(html, i + 1, FALSE)

\* C10: the tag scan discards only the characters from a '<' up to and
\* including the next '>'; every other character is copied in order, a '>'
\* with no open '<' before it included, and an unclosed '<' discards the rest.
C10_TagScan ==
    sv.phase \in {"once", "twice"} => sv.scanned = TagScanFrom(sv.html, 1, FALSE)

\* The request's render_template has run (it begins with REGISTRY.get()).
Rendered(r) == \E i \in 1..Len(log[r]) : log[r][i] = "registry_get"

\* C11: no render_template ever finds REGISTRY unset: the expect never fails
\* for any request; once from_env has returned Ok (the state exists, the server
\* may run) REGISTRY holds the registry init_registry built from the templates
\* directory; a failed initialisation leaves no state, no server and no
\* dispatch; and every dispatch that rendered read one and the same set
\* registry, the one REGISTRY holds.
C11_RegistryReady ==
    /\ \A r \in Reqs : rpc[r] # "panicked"
    /\ mainPc \in {"state", "serving"} =>
          /\ state.built
          /\ registry.set
          /\ BuildRegistry(baseFile, state.templates_dir).ok
          /\ registry.val = BuildRegistry(baseFile, state.templates_dir).reg
    /\ ~state.built => \A r \in Reqs : rpc[r] = "idle"
    /\ (mainPc = "failed" /\ ~state.built) => \A r \in Reqs : log[r] = <<>>
    /\ \A r \in Reqs : Rendered(r) => (rreg[r].set /\ rreg[r] = registry)
    /\ \A r1, r2 \in Reqs : (Rendered(r1) /\ Rendered(r2)) => rreg[r1] = rreg[r2]

\* Two dispatches have rendered, one while the other's send was in flight, and
\* both read the registry that holds the base partial.
C11_Witness ==
    \E r1, r2 \in Reqs :
        /\ r1 # r2
        /\ mainPc = "serving"
        /\ Rendered(r1) /\ Rendered(r2)
        /\ rpc[r1] = "sending" /\ rpc[r2] = "done"
        /\ rreg[r1] = registry /\ rreg[r2] = registry
        /\ registry.val.partials # {}

====
